---------------------------- MODULE Spec2Model ----------------------------
(***************************************************************************)
(* The abstract incremental enumeration of ipynb/war.ipynb: make_abdeck,   *)
(* p_sweep, play_turn and remove, together with the brute-force            *)
(* enumeration (make_deck, sweep, p_sweeps) the notebook compares them to. *)
(*                                                                         *)
(* A probability is an exact rational <<numerator, denominator>> in lowest *)
(* terms with a positive denominator.  The notebook computes the same      *)
(* products, quotients and sums in double precision; the rounding of each  *)
(* double operation is not modelled, so every statement below about a mass *)
(* is a statement about its exact value.                                   *)
(*                                                                         *)
(* Python indexes from 0, TLA+ sequences from 1: position i of the source  *)
(* is position i + 1 here.                                                 *)
(***************************************************************************)
EXTENDS Integers, Sequences, FiniteSets, TLC

VARIABLES
    pc,       \* where the caller stands: "start", "made", "loop", "turn", "done", "raised"
    ranks,    \* argument of make_abdeck
    suits,    \* argument of make_abdeck
    deck,     \* the AbDeck make_abdeck returned, the argument of p_sweep
    turn,     \* number of completed iterations of p_sweep's loop
    heap,     \* the live PDist objects, by reference
    P,        \* p_sweep's / play_turn's P: a reference into heap
    P1,       \* play_turn's P1: a reference into heap, 0 outside play_turn
    todo,     \* the (deck, i, j) iterations play_turn has still to run
    result,   \* what p_sweep returned, <<>> before it returns
    raised    \* the exception that ended the run, "none" if none

vars == <<pc, ranks, suits, deck, turn, heap, P, P1, todo, result, raised>>

----------------------------------------------------------------------------
(* Bounds of the model. *)

MaxRanks == 10
MaxTokens == 10
MaxRanksAnyOrder == 4
MaxTokensAnyOrder == 8

----------------------------------------------------------------------------
(* Exact arithmetic on probabilities. *)

Abs(a) == IF a < 0 THEN -a ELSE a

RECURSIVE GCD(_, _)
GCD(a, b) == IF b = 0 THEN a ELSE GCD(b, a % b)

LCM(a, b) == (a \div GCD(a, b)) * b

Norm(n, d) == LET g == GCD(Abs(n), d) IN <<n \div g, d \div g>>

Zero == <<0, 1>>
One == <<1, 1>>

RMul(x, c) == Norm(x[1] * c, x[2])

RDiv(x, c) == IF c > 0 THEN Norm(x[1], x[2] * c) ELSE Norm(-x[1], x[2] * (-c))

RAdd(x, y) ==
    LET l == LCM(x[2], y[2])
    IN  Norm(x[1] * (l \div x[2]) + y[1] * (l \div y[2]), l)

RSub(x, y) == RAdd(x, <<-y[1], y[2]>>)

RLess(x, y) ==
    LET l == LCM(x[2], y[2])
    IN  x[1] * (l \div x[2]) < y[1] * (l \div y[2])

RLeq(x, y) == x = y \/ RLess(x, y)

----------------------------------------------------------------------------
(* Sequences of integers. *)

RECURSIVE SumSeq(_)
SumSeq(s) == IF s = <<>> THEN 0 ELSE Head(s) + SumSeq(Tail(s))

RECURSIVE Insert(_, _)
Insert(c, s) ==
    IF s = <<>> THEN <<c>>
    ELSE IF c <= Head(s) THEN <<c>> \o s
    ELSE <<Head(s)>> \o Insert(c, Tail(s))

RECURSIVE sorted(_)
sorted(s) == IF s = <<>> THEN <<>> ELSE Insert(Head(s), sorted(Tail(s)))

----------------------------------------------------------------------------
(* AbDeck *)

(* make_abdeck with its arguments exchanged: [ranks] * suits *)
make_abdeck_swapped(r, s) == [k \in 1..s |-> r]

make_abdeck(r, s) == [k \in 1..r |-> s]

(* indexes.count(k) for indexes = (i, j) *)
Count(i, j, k) == (IF i = k THEN 1 ELSE 0) + (IF j = k THEN 1 ELSE 0)

(* remove without sorted: the counts left in the order of the parent *)
remove_unsorted(d, i, j) ==
    SelectSeq([k \in 1..Len(d) |-> d[k] - Count(i, j, k)], LAMBDA c : c > 0)

remove(d, i, j) ==
    LET counts == [k \in 1..Len(d) |-> d[k] - Count(i, j, k)]
    IN  sorted(SelectSeq(counts, LAMBDA c : c > 0))

(* permutations(range(n), 2): both (i, j) and (j, i) *)
RECURSIVE OrderedPairsFrom(_, _, _)
OrderedPairsFrom(i, j, n) ==
    IF i > n THEN <<>>
    ELSE SelectSeq([k \in 1..(n - j + 1) |-> <<i, j + k - 1>>], LAMBDA x : x[1] # x[2])
         \o OrderedPairsFrom(i + 1, 1, n)

permutations(n) == OrderedPairsFrom(1, 1, n)

(* combinations(range(n), 2), in the order itertools yields them *)
RECURSIVE PairsFrom(_, _, _)
PairsFrom(i, j, n) ==
    IF i >= n THEN <<>>
    ELSE [k \in 1..(n - j + 1) |-> <<i, j + k - 1>>] \o PairsFrom(i + 1, i + 2, n)

(* combinations(range(n + 1), 2): one position too many *)
combinations_off_by_one(n) == PairsFrom(1, 2, n + 1)

combinations(n) == PairsFrom(1, 2, n)

----------------------------------------------------------------------------
(* PDist: a Counter, kept as the sequence of its (key, value) items in     *)
(* insertion order.                                                        *)

Keys(d) == {d[k][1] : k \in 1..Len(d)}

(* d[key]: Counter.__missing__ answers 0 and inserts nothing *)
Get(d, key) ==
    IF \E k \in 1..Len(d) : d[k][1] = key
    THEN d[CHOOSE k \in 1..Len(d) : d[k][1] = key][2]
    ELSE Zero

(* d[key] = v *)
SetItem(d, key, v) ==
    IF \E k \in 1..Len(d) : d[k][1] = key
    THEN [k \in 1..Len(d) |-> IF d[k][1] = key THEN <<key, v>> ELSE d[k]]
    ELSE Append(d, <<key, v>>)

(* sum(d.values()) *)
RECURSIVE Total(_)
Total(d) == IF d = <<>> THEN Zero ELSE RAdd(Total(SubSeq(d, 1, Len(d) - 1)), d[Len(d)][2])


----------------------------------------------------------------------------
(* play_turn, one iteration of its inner loop at a time. *)

(* the (deck, i, j) of `for deck in P: for i, j in combinations(...)`, in  *)
(* the order the two loops run them                                        *)
RECURSIVE Items(_)
Items(d) ==
    IF d = <<>> THEN <<>>
    ELSE LET dk == Head(d)[1]
             pairs == combinations(Len(dk))
         IN  [p \in 1..Len(pairs) |-> <<dk, pairs[p][1], pairs[p][2]>>] \o Items(Tail(d))

(* n = sum(deck) *)
CardCount(dk) == SumSeq(dk)

(* the exception the right-hand side of line 357 raises, evaluated left to *)
(* right, "none" if it raises none                                         *)
Failure(dk, i, j) ==
    LET n == CardCount(dk)
    IN  IF i \notin 1..Len(dk) THEN "IndexError"
        ELSE IF n = 0 THEN "ZeroDivisionError"
        ELSE IF j \notin 1..Len(dk) THEN "IndexError"
        ELSE IF n - 1 = 0 THEN "ZeroDivisionError"
        ELSE "none"

(* P[deck] * deck[i] / n * deck[j]: the second division left out *)
MassUndivided(p, dk, i, j) == RMul(RDiv(RMul(p, dk[i]), CardCount(dk)), dk[j])

(* P[deck] * deck[i] / n * deck[j] / n: the second card drawn from n cards *)
MassWithReplacement(p, dk, i, j) ==
    RDiv(RMul(RDiv(RMul(p, dk[i]), CardCount(dk)), dk[j]), CardCount(dk))

(* P[deck] * deck[i] / n * deck[j] / (n - 1) *)
Mass(p, dk, i, j) ==
    LET n == CardCount(dk)
    IN  RDiv(RMul(RDiv(RMul(p, dk[i]), n), dk[j]), n - 1)

(* d[key] += delta *)
AddTo(d, key, delta) == SetItem(d, key, RAdd(Get(d, key), delta))

(* P[...] += ...: the accumulation goes into the input distribution *)
WriteTargetInput(p, p1) == p

(* the object the += of line 357 writes to *)
WriteTarget(p, p1) == p1

(* the whole of play_turn on the value d, as the source runs it *)
RECURSIVE RunItems(_, _, _)
RunItems(d, d1, items) ==
    IF items = <<>> THEN d1
    ELSE LET it == Head(items)
         IN  RunItems(d, AddTo(d1, remove(it[1], it[2], it[3]),
                               Mass(Get(d, it[1]), it[1], it[2], it[3])),
                      Tail(items))

play_turn(d) == RunItems(d, <<>>, Items(d))

(* range(len(deck) // 2): the ranks counted, not the cards *)
TurnsByLen(dk) == Len(dk) \div 2

(* range(sum(deck)): a turn for each card, not for each pair of cards *)
TurnsBySum(dk) == IF SumSeq(dk) > 0 THEN SumSeq(dk) ELSE 0

(* range(sum(deck) // 2) *)
Turns(dk) == IF SumSeq(dk) \div 2 > 0 THEN SumSeq(dk) \div 2 ELSE 0

RECURSIVE Iterate(_, _)
Iterate(d, k) == IF k = 0 THEN d ELSE Iterate(play_turn(d), k - 1)

p_sweep(dk) == Total(Iterate(<<<<dk, One>>>>, Turns(dk)))

----------------------------------------------------------------------------
(* Brute force enumeration: make_deck, sweep, p_sweeps over permutations.  *)

make_deck(r, s) == [k \in 1..(r * s) |-> ((k - 1) \div s) + 1]

RECURSIVE Factorial(_)
Factorial(n) == IF n <= 1 THEN 1 ELSE n * Factorial(n - 1)

(* The number of orderings, out of permutations(d), of the positions       *)
(* `free` of d that sweep.  permutations(d) orders positions, so equal     *)
(* ranks at different positions give different orderings.  An ordering is  *)
(* dealt a pair at a time, card a to player A and card b to player B, and  *)
(* is dropped at the first pair that fails d[a] > d[b], as `all` stops at  *)
(* it.  `free` is the increasing sequence of the positions not dealt yet;  *)
(* the pair number c stands for a = free[c \div f + 1] and                 *)
(* b = free[c % f + 1], f = Len(free), and SweepCountOver adds up the      *)
(* pairs numbered lo..hi.                                                  *)
RECURSIVE SweepCount(_, _), SweepCountOver(_, _, _, _)
SweepCountOver(d, free, lo, hi) ==
    IF lo < hi
    THEN LET mid == (lo + hi) \div 2
         IN  SweepCountOver(d, free, lo, mid) + SweepCountOver(d, free, mid + 1, hi)
    ELSE LET a == free[(lo \div Len(free)) + 1]
             b == free[(lo % Len(free)) + 1]
         IN  IF a # b /\ d[a] > d[b]
             THEN SweepCount(d, SelectSeq(free, LAMBDA x : x # a /\ x # b))
             ELSE 0

SweepCount(d, free) ==
    IF free = <<>> THEN 1
    ELSE SweepCountOver(d, free, 0, Len(free) * Len(free) - 1)

(* mean(sweep(deck) for deck in permutations(d)) *)
p_sweeps(d) == Norm(SweepCount(d, [k \in 1..Len(d) |-> k]), Factorial(Len(d)))

----------------------------------------------------------------------------
(* The caller: deck = make_abdeck(r, s); p_sweep(deck). *)

Init ==
    /\ pc = "start"
    /\ ranks = 0
    /\ suits = 0
    /\ deck = <<>>
    /\ turn = 0
    /\ heap = <<>>
    /\ P = 0
    /\ P1 = 0
    /\ todo = <<>>
    /\ result = <<>>
    /\ raised = "none"

MakeAbdeck(maxRanks, maxTokens) ==
    /\ pc = "start"
    /\ \E r \in -1..maxRanks, s \in -1..maxTokens :
        /\ r * s <= maxTokens
        /\ ranks' = r
        /\ suits' = s
        /\ deck' = make_abdeck(r, s)
    /\ pc' = "made"
    /\ UNCHANGED <<turn, heap, P, P1, todo, result, raised>>

(* P = PDist({deck: 1.0}) *)
PSweepCall ==
    /\ pc = "made"
    /\ heap' = (1 :> <<<<deck, One>>>>)
    /\ P' = 1
    /\ turn' = 0
    /\ pc' = "loop"
    /\ UNCHANGED <<ranks, suits, deck, P1, todo, result, raised>>

(* a further iteration of `for turn in range(...)`: play_turn(P) is called *)
(* and creates P1 = PDist()                                                *)
PlayTurnCall ==
    /\ pc = "loop"
    /\ turn < Turns(deck)
    /\ P1' = 3 - P
    /\ heap' = heap @@ ((3 - P) :> <<>>)
    /\ todo' = Items(heap[P])
    /\ pc' = "turn"
    /\ UNCHANGED <<ranks, suits, deck, turn, P, result, raised>>

(* line 357 for the k-th of the iterations still to run *)
Iteration(k) ==
    LET it == todo[k]
        dk == it[1]
        i == it[2]
        j == it[3]
        target == WriteTarget(P, P1)
    IN  /\ todo' = [m \in 1..(Len(todo) - 1) |-> IF m < k THEN todo[m] ELSE todo[m + 1]]
        /\ IF Failure(dk, i, j) # "none"
           THEN /\ raised' = Failure(dk, i, j)
                /\ pc' = "raised"
                /\ heap' = heap
           ELSE /\ heap' = [heap EXCEPT ![target] =
                               AddTo(@, remove(dk, i, j), Mass(Get(heap[P], dk), dk, i, j))]
                /\ UNCHANGED <<pc, raised>>
        /\ UNCHANGED <<ranks, suits, deck, turn, P, P1, result>>

(* the loops of play_turn in the order Python runs them *)
PlayTurnStep ==
    /\ pc = "turn"
    /\ todo # <<>>
    /\ Iteration(1)

(* the same iterations in any order *)
PlayTurnStepAnyOrder ==
    /\ pc = "turn"
    /\ todo # <<>>
    /\ \E k \in 1..Len(todo) : Iteration(k)

(* return P1, and P = play_turn(P) in p_sweep: the old P is released *)
PlayTurnReturn ==
    /\ pc = "turn"
    /\ todo = <<>>
    /\ P' = P1
    /\ P1' = 0
    /\ heap' = (P1 :> heap[P1])
    /\ turn' = turn + 1
    /\ pc' = "loop"
    /\ UNCHANGED <<ranks, suits, deck, todo, result, raised>>

(* return sum(P.values()) *)
PSweepReturn ==
    /\ pc = "loop"
    /\ turn >= Turns(deck)
    /\ result' = Total(heap[P])
    /\ pc' = "done"
    /\ UNCHANGED <<ranks, suits, deck, turn, heap, P, P1, todo, raised>>

Next ==
    \/ MakeAbdeck(MaxRanks, MaxTokens)
    \/ PSweepCall
    \/ PlayTurnCall
    \/ PlayTurnStep
    \/ PlayTurnReturn
    \/ PSweepReturn

Spec == Init /\ [][Next]_vars

NextAnyOrder ==
    \/ MakeAbdeck(MaxRanksAnyOrder, MaxTokensAnyOrder)
    \/ PSweepCall
    \/ PlayTurnCall
    \/ PlayTurnStepAnyOrder
    \/ PlayTurnReturn
    \/ PSweepReturn

SpecAnyOrder == Init /\ [][NextAnyOrder]_vars

----------------------------------------------------------------------------
(* Properties. *)

(* ranks >= 1, suits >= 1 and an even number of cards *)
ValidConfig == ranks >= 1 /\ suits >= 1 /\ (ranks * suits) % 2 = 0

(* play_turn has run all its iterations and is about to return P1 *)
TurnComplete == pc = "turn" /\ todo = <<>>

(* C1: for every deck of ranks >= 1, suits >= 1 and an even number of at   *)
(* most 10 cards, what p_sweep returns is the fraction of the orderings of *)
(* make_deck(ranks, suits) that sweep, as p_sweeps counts them.            *)
C1_OracleEquivalence ==
    (pc = "done" /\ ValidConfig /\ ranks * suits <= 10)
        => result = p_sweeps(make_deck(ranks, suits))

C1_Witness ==
    /\ pc = "done"
    /\ ranks = 5
    /\ suits = 2
    /\ result = p_sweeps(make_deck(5, 2))
    /\ result[1] > 0

(* C2: p_sweep(make_abdeck(r, s)) is 1/2 for (2, 1), 1/4 for (4, 1), 1/6   *)
(* for (2, 2), 1/16 for (8, 1) and 1/28 for (4, 2).                        *)
C2_ConcreteValues ==
    pc = "done" =>
        /\ (ranks = 2 /\ suits = 1) => result = <<1, 2>>
        /\ (ranks = 4 /\ suits = 1) => result = <<1, 4>>
        /\ (ranks = 2 /\ suits = 2) => result = <<1, 6>>
        /\ (ranks = 8 /\ suits = 1) => result = <<1, 16>>
        /\ (ranks = 4 /\ suits = 2) => result = <<1, 28>>

C2_Witness == pc = "done" /\ ranks = 4 /\ suits = 2 /\ result = <<1, 28>>

InUnitInterval(x) == RLeq(Zero, x) /\ RLeq(x, One)

(* C3: for every valid configuration each mass of P and of P1 is at least  *)
(* 0 and their totals lie in [0, 1] throughout p_sweep, and so does the    *)
(* value p_sweep returns.                                                  *)
C3_Bounds ==
    ValidConfig =>
        /\ \A r \in DOMAIN heap :
            /\ \A k \in 1..Len(heap[r]) : RLeq(Zero, heap[r][k][2])
            /\ InUnitInterval(Total(heap[r]))
        /\ pc = "done" => InUnitInterval(result)

C3_Witness ==
    /\ ValidConfig
    /\ pc = "loop"
    /\ turn >= 2
    /\ Len(heap[P]) >= 3
    /\ RLess(Zero, Total(heap[P]))
    /\ RLess(Total(heap[P]), One)

(* the number of ordered draws of two cards of the same rank from c *)
TieNum(c) == SumSeq([k \in 1..Len(c) |-> c[k] * (c[k] - 1)])

(* the number of ordered draws from c in which A's card is of the lower of *)
(* two different ranks: one for each pair of cards of positions i < j      *)
LossNum(c) == SumSeq([i \in 1..Len(c) |-> c[i] * SumSeq(SubSeq(c, i + 1, Len(c)))])

(* sum over the states s of d of d(s) * (tie(s) + loss(s)) *)
RECURSIVE TieOrLoss(_)
TieOrLoss(d) ==
    IF d = <<>> THEN Zero
    ELSE LET c == Head(d)[1]
             n == SumSeq(c)
         IN  RAdd(RMul(RDiv(Head(d)[2], n * (n - 1)), TieNum(c) + LossNum(c)),
                  TieOrLoss(Tail(d)))

(* C4: in every turn of a valid run the mass play_turn drops,              *)
(* total(P) - total(P1), is the probability of a tie or a loss in that     *)
(* turn, sum of P(s) * (tie(s) + loss(s)), and is not negative.            *)
C4_MassLossSplit ==
    (TurnComplete /\ ValidConfig) =>
        /\ RSub(Total(heap[P]), Total(heap[P1])) = TieOrLoss(heap[P])
        /\ RLeq(Total(heap[P1]), Total(heap[P]))

C4_Witness ==
    /\ TurnComplete
    /\ ValidConfig
    /\ Len(heap[P]) >= 2
    /\ \E k \in 1..Len(heap[P]) : TieNum(heap[P][k][1]) > 0
    /\ RLess(Zero, Total(heap[P1]))
    /\ RSub(Total(heap[P]), Total(heap[P1])) = TieOrLoss(heap[P])

(* every state of d has at most one rank left *)
SingleRankOnly(d) == \A k \in 1..Len(d) : Len(d[k][1]) <= 1

(* C5, as stated: play_turn strictly decreases a positive total mass,      *)
(* except when the states of P are single-rank decks.                      *)
C5_DecreaseExceptSingleRank ==
    (TurnComplete /\ RLess(Zero, Total(heap[P]))) =>
        (RLess(Total(heap[P1]), Total(heap[P])) <=> ~SingleRankOnly(heap[P]))

(* C5, amended: play_turn strictly decreases every positive total mass,    *)
(* single-rank decks included.                                             *)
C5_StrictDecrease ==
    (TurnComplete /\ RLess(Zero, Total(heap[P]))) =>
        RLess(Total(heap[P1]), Total(heap[P]))

C5_Witness ==
    /\ TurnComplete
    /\ heap[P] # <<>>
    /\ SingleRankOnly(heap[P])
    /\ RLess(Zero, Total(heap[P]))
    /\ Total(heap[P1]) = Zero

(* C6, as stated: make_abdeck returns no AbDeck when ranks <= 0 or         *)
(* suits <= 0: whenever it has returned, both arguments were positive.     *)
C6_NonPositiveRejected == pc # "start" => (ranks >= 1 /\ suits >= 1)

(* C7, as stated: for a deck with an odd number of cards p_sweep plays no  *)
(* turn and returns no number.                                             *)
C7_OddTotalRejected ==
    (ranks >= 1 /\ suits >= 1 /\ (ranks * suits) % 2 = 1)
        => (pc \notin {"turn", "done"} /\ turn = 0 /\ result = <<>>)

(* C8: from its call to its return play_turn leaves P and the object P     *)
(* refers to as they are, and P1 is another object than P.                 *)
C8_InputUnchanged ==
    [][(pc' = "turn" \/ (pc = "turn" /\ pc' = "raised"))
          => (P' = P /\ heap'[P] = heap[P] /\ P1' # P')]_vars

C8_Witness ==
    /\ TurnComplete
    /\ turn = 0
    /\ Len(heap[P1]) >= 1
    /\ heap[P] = <<<<deck, One>>>>
    /\ P1 # P

(* a PDist as the mapping it is, whatever the order of insertion *)
AsMap(d) == [key \in Keys(d) |-> Get(d, key)]

C10_NoRuntimeFailure ==
    /\ raised = "none"
    /\ pc # "raised"
    /\ \A m \in 1..Len(todo) :
        /\ Len(todo[m][1]) >= 2
        /\ CardCount(todo[m][1]) >= 2
        /\ Failure(todo[m][1], todo[m][2], todo[m][3]) = "none"

C10_Witness ==
    /\ ValidConfig
    /\ pc = "turn"
    /\ todo # <<>>
    /\ CardCount(todo[1][1]) = 2
    /\ \E k \in 1..Len(heap[P]) : Len(heap[P][k][1]) = 1

(* the number of entries of the sequence c that are v *)
Occurrences(c, v) == Cardinality({k \in 1..Len(c) : c[k] = v})

(* child holds the counts of parent with one card taken at each of two     *)
(* different positions, the counts that fell to 0 left out, in some order  *)
IsSuccessor(parent, child) ==
    \E i, j \in 1..Len(parent) :
        /\ i < j
        /\ \A v \in 1..(SumSeq(parent) + 1) :
            Occurrences(child, v) =
                Cardinality({k \in 1..Len(parent) : parent[k] - Count(i, j, k) = v})
        /\ \A k \in 1..Len(child) : child[k] >= 1

(* key is sorted ascending, has at most `ranks` entries, all in 1..suits,  *)
(* which sum to the cards left after t turns                               *)
Canonical(key, t) ==
    /\ \A k \in 1..(Len(key) - 1) : key[k] <= key[k + 1]
    /\ \A k \in 1..Len(key) : key[k] >= 1 /\ key[k] <= suits
    /\ Len(key) <= ranks
    /\ SumSeq(key) = ranks * suits - 2 * t

(* C11: for ranks >= 1 and suits >= 1 every key of the distribution after  *)
(* t turns is sorted ascending, has at most `ranks` entries, each in       *)
(* 1..suits, summing to ranks * suits - 2 * t; and every key of the P1     *)
(* being built is a key of P with two different positions decremented,     *)
(* zeros dropped.                                                          *)
C11_CanonicalKeys ==
    (ranks >= 1 /\ suits >= 1 /\ pc \in {"loop", "turn", "done"}) =>
        /\ \A key \in Keys(heap[P]) : Canonical(key, turn)
        /\ pc = "turn" =>
            \A key \in Keys(heap[P1]) :
                /\ Canonical(key, turn + 1)
                /\ \E parent \in Keys(heap[P]) : IsSuccessor(parent, key)

C11_Witness ==
    /\ ranks >= 3
    /\ suits >= 3
    /\ TurnComplete
    /\ turn >= 2
    /\ Len(heap[P1]) >= 3
    /\ \E key \in Keys(heap[P1]) : Len(key) < ranks /\ key[1] < key[Len(key)]
    /\ \A key \in Keys(heap[P1]) : Canonical(key, turn + 1)

(* the sum over the positions i < j of s that lead from s to key of        *)
(* p * s[i] * s[j] / (n * (n - 1)); the pair number c stands for           *)
(* i = c \div Len(s) + 1 and j = c % Len(s) + 1, and PairSum adds up the   *)
(* pairs numbered lo..hi                                                   *)
RECURSIVE PairSum(_, _, _, _, _)
PairSum(p, s, key, lo, hi) ==
    IF lo > hi THEN Zero
    ELSE IF lo < hi
    THEN LET mid == (lo + hi) \div 2
         IN  RAdd(PairSum(p, s, key, lo, mid), PairSum(p, s, key, mid + 1, hi))
    ELSE LET i == (lo \div Len(s)) + 1
             j == (lo % Len(s)) + 1
         IN  IF i < j /\ remove(s, i, j) = key
             THEN RDiv(RMul(p, s[i] * s[j]), SumSeq(s) * (SumSeq(s) - 1))
             ELSE Zero

(* the sum of PairSum over the states of d *)
RECURSIVE ExpectedMass(_, _)
ExpectedMass(d, key) ==
    IF d = <<>> THEN Zero
    ELSE RAdd(PairSum(Head(d)[2], Head(d)[1], key, 0, Len(Head(d)[1]) * Len(Head(d)[1]) - 1),
              ExpectedMass(Tail(d), key))

(* the successors of the states of d by a pair of positions i < j *)
ExpectedKeys(d) ==
    UNION { {remove(d[k][1], x[1], x[2]) :
                x \in {y \in (1..Len(d[k][1])) \X (1..Len(d[k][1])) : y[1] < y[2]}}
            : k \in 1..Len(d) }

(* the number of pairs of positions i < j over the states of d *)
RECURSIVE PairTotal(_)
PairTotal(d) ==
    IF d = <<>> THEN 0
    ELSE (Len(Head(d)[1]) * (Len(Head(d)[1]) - 1)) \div 2 + PairTotal(Tail(d))

(* C12: the P1 play_turn returns has exactly the keys remove(s, i, j) for  *)
(* s in P and positions i < j of s, each with the sum of                   *)
(* P(s) * s[i] / n * s[j] / (n - 1) over the (s, i, j) that lead to it;    *)
(* every iteration has i < j, and at the call there is one iteration for   *)
(* each such (s, i, j), none twice.                                        *)
C12_ExactTransition ==
    pc = "turn" =>
        /\ \A m \in 1..Len(todo) :
            /\ todo[m][2] < todo[m][3]
            /\ todo[m][2] >= 1
            /\ todo[m][3] <= Len(todo[m][1])
            /\ todo[m][1] \in Keys(heap[P])
            /\ \A q \in 1..Len(todo) : todo[q] = todo[m] => q = m
        /\ heap[P1] = <<>> => Len(todo) <= PairTotal(heap[P])
        /\ todo = <<>> =>
            /\ Keys(heap[P1]) = ExpectedKeys(heap[P])
            /\ \A key \in Keys(heap[P1]) :
                Get(heap[P1], key) = ExpectedMass(heap[P], key)
            /\ \A k, m \in 1..Len(heap[P1]) : heap[P1][k][1] = heap[P1][m][1] => k = m

C12_Witness ==
    /\ TurnComplete
    /\ Len(heap[P]) >= 3
    /\ \E key \in Keys(heap[P1]) :
        /\ Cardinality({k \in 1..Len(heap[P]) : IsSuccessor(heap[P][k][1], key)}) >= 2
        /\ Get(heap[P1], key) = ExpectedMass(heap[P], key)
        /\ RLess(Zero, Get(heap[P1], key))

(* C13: for a valid deck of N cards p_sweep starts from {deck: 1.0}, calls *)
(* play_turn N / 2 times whatever P holds, and returns the total of the    *)
(* last P, whose only possible key is the empty deck; on an empty P        *)
(* play_turn has no iteration to run, raises nothing, and the value        *)
(* returned is 0.                                                          *)
C13_DriverLoop ==
    (ValidConfig /\ pc # "start" /\ pc # "made") =>
        /\ raised = "none"
        /\ turn <= (ranks * suits) \div 2
        /\ (pc = "loop" /\ turn = 0) => heap[P] = <<<<deck, One>>>>
        /\ (pc = "turn" /\ heap[P] = <<>>) => todo = <<>>
        /\ pc = "done" =>
            /\ turn = (ranks * suits) \div 2
            /\ result = Total(heap[P])
            /\ Keys(heap[P]) \subseteq {<<>>}
            /\ heap[P] = <<>> => result = Zero

C13_Witness ==
    /\ pc = "done"
    /\ deck = <<4>>
    /\ turn = 2
    /\ heap[P] = <<>>
    /\ result = Zero
    /\ raised = "none"

============================================================================
